---- MODULE Spec2Model ----
(***************************************************************************)
(* Player / PlayerGroup domain model of wouso (wouso/core/user/models.py). *)
(*                                                                         *)
(* The persisted tables are functions whose DOMAIN is the set of rows:     *)
(*   artifact_amounts : <<player, artifact name>> -> amount                *)
(*   spell_amounts    : <<player, spell name>>    -> amount                *)
(*   spell_dues       : <<player, spell name>>    -> [source, due]         *)
(* (unique_together makes the pair a key of each table).  `last` records   *)
(* the most recent call: its arguments, what it raised and what it         *)
(* returned.                                                               *)
(***************************************************************************)
EXTENDS Integers, FiniteSets, Sequences, TLC

VARIABLES artifact_amounts, spell_amounts, spell_dues, last, step,
          gclass, parent, inst, first, users, players, member, thr

store == <<artifact_amounts, spell_amounts, spell_dues>>
groupVars == <<gclass, parent, inst>>
\* first  : what the first read of sisters on the instance returned
\* users  : the saved accounts;  players : account -> number of Player rows
\* member : player -> the groups of Player.groups
\* thr    : the requests in flight, each with its local variables
moreVars == <<first, users, players, member, thr>>
vars == <<artifact_amounts, spell_amounts, spell_dues, last, step,
          gclass, parent, inst, first, users, players, member, thr>>

----------------------------------------------------------------------------
(* Bounds of the model *)

\* largest sum of the amounts in the artifact table
MaxAmount == 3
\* largest sum of the amounts in the spell-collection table
MaxSpells == 2
\* largest number of active-effect rows
MaxEffects == 2
\* active-effect rows present when the modifier-accounting runs start
InitEffects == 1
\* largest sum of all amounts plus active-effect rows, where every mutator runs
MaxTotal == 5

Players == {"p1", "p2"}
\* modifier names; an artifact and a spell may carry the same name
Names == {"shield", "curse"}
Keys == Players \X Names
\* two distinct expiry timestamps
Dues == {1, 2}
\* amount arguments: negative, zero and positive
Amounts == (-1)..MaxAmount
\* where a failure strikes in cast_spell's second try block: nowhere, in
\* God.post_cast, or in psamount.save() / psamount.delete()
Faults == {"none", "post_cast", "save"}

----------------------------------------------------------------------------
(* Table helpers *)

RECURSIVE SumOver(_, _)
SumOver(f, S) ==
    IF S = {} THEN 0
    ELSE LET k == CHOOSE x \in S : TRUE IN f[k] + SumOver(f, S \ {k})

Total(f) == SumOver(f, DOMAIN f)

\* Model.delete(): the row leaves the table
Delete(f, k) == [x \in DOMAIN f \ {k} |-> f[x]]

\* Model.save() / objects.create(): the row is written
Put(f, k, v) == [x \in DOMAIN f \cup {k} |-> IF x = k THEN v ELSE f[x]]

Tables(S, V, n) ==
    UNION {[D -> V] : D \in {T \in SUBSET S : Cardinality(T) <= n}}

----------------------------------------------------------------------------
(* Values a call returns *)

None == [kind |-> "None"]
False == [kind |-> "False"]
True == [kind |-> "True"]

PlayerArtifactAmount(player, artifact, amount) ==
    [kind |-> "PlayerArtifactAmount", player |-> player,
     artifact |-> artifact, amount |-> amount]

PlayerSpellDue(player, spell, source, due) ==
    [kind |-> "PlayerSpellDue", player |-> player, spell |-> spell,
     source |-> source, due |-> due]

\* getattr(obj, 'amount'): only PlayerArtifactAmount rows carry the field
HasAmountAttr(obj) == obj.kind = "PlayerArtifactAmount"

\* Python truth of a returned object: False is falsy, model instances truthy
Truthy(obj) == obj.kind \notin {"False", "None"}

----------------------------------------------------------------------------
(* Player.has_modifier *)

\* variant: the active-effect lookup comes first
has_modifier_MutDueFirst(self, modifier) ==
    IF <<self, modifier>> \in DOMAIN spell_dues
    THEN PlayerSpellDue(self, modifier,
                        spell_dues[<<self, modifier>>].source,
                        spell_dues[<<self, modifier>>].due)
    ELSE IF <<self, modifier>> \in DOMAIN artifact_amounts
    THEN PlayerArtifactAmount(self, modifier,
                              artifact_amounts[<<self, modifier>>])
    ELSE False

has_modifier(self, modifier) ==
    IF <<self, modifier>> \in DOMAIN artifact_amounts
    THEN PlayerArtifactAmount(self, modifier,
                              artifact_amounts[<<self, modifier>>])
    ELSE IF <<self, modifier>> \in DOMAIN spell_dues
    THEN PlayerSpellDue(self, modifier,
                        spell_dues[<<self, modifier>>].source,
                        spell_dues[<<self, modifier>>].due)
    ELSE False

\* God.get_artifact_for_modifier: the artifact named by the modifier
get_artifact_for_modifier(modifier, player) == modifier

\* the amount of artifact `m` that player `p` holds, 0 when there is no row
Holding(p, m) ==
    IF <<p, m>> \in DOMAIN artifact_amounts
    THEN artifact_amounts[<<p, m>>] ELSE 0

EmptyTable == [k \in {} |-> 0]

\* the record of one call: arguments, exception raised ("" when none),
\* value returned, collaborator calls made (God functions, queries run), and
\* the amount held before the call by the player the call draws on
Call(op, self, name, amount, source, due, fault, raised, ret, calls, before) ==
    [op |-> op, self |-> self, name |-> name, amount |-> amount,
     source |-> source, due |-> due, fault |-> fault, raised |-> raised,
     ret |-> ret, calls |-> calls, before |-> before]

NoCall == Call("init", "-", "-", 0, "-", 0, "none", "", None, {}, 0)

----------------------------------------------------------------------------
(* Player.use_modifier *)

\* variant: `>=` for `>`
InsufficientMutGe(amount, held) == amount >= held

\* `if amount > paamount.amount`
Insufficient(amount, held) == amount > held

\* variant: the row is always saved
IsSpentMutNever(amount) == FALSE

\* `if paamount.amount == 0` : the row is deleted instead of saved
IsSpent(amount) == amount = 0

use_raises(self, modifier, amount) ==
    LET paamount == has_modifier(self, modifier) IN
    IF ~HasAmountAttr(paamount) THEN "AttributeError"
    ELSE IF Insufficient(amount, paamount.amount) THEN "InsufficientAmount"
    ELSE ""

use_returns(self, modifier, amount) ==
    LET paamount == has_modifier(self, modifier) IN
    IF use_raises(self, modifier, amount) # "" THEN None
    ELSE PlayerArtifactAmount(self, modifier, paamount.amount - amount)

use_modifier(self, modifier, amount) ==
    LET paamount == has_modifier(self, modifier)
        k == <<self, modifier>>
    IN  /\ artifact_amounts' =
             IF use_raises(self, modifier, amount) # "" THEN artifact_amounts
             ELSE IF IsSpent(paamount.amount - amount)
                  THEN Delete(artifact_amounts, k)
                  ELSE Put(artifact_amounts, k, paamount.amount - amount)
        /\ UNCHANGED <<spell_amounts, spell_dues>>

----------------------------------------------------------------------------
(* Player.give_modifier *)

\* variant: `<` for `<=`
NothingToGiveMutLt(amount) == amount < 0

\* `if amount <= 0: return`
NothingToGive(amount) == amount <= 0

give_raises(self, modifier, amount) ==
    LET paamount == has_modifier(self, modifier) IN
    IF NothingToGive(amount) THEN ""
    ELSE IF ~Truthy(paamount) THEN ""
    ELSE IF ~HasAmountAttr(paamount) THEN "AttributeError"
    ELSE ""

give_god(self, modifier, amount) ==
    IF ~NothingToGive(amount) /\ ~Truthy(has_modifier(self, modifier))
    THEN {"get_artifact_for_modifier"} ELSE {}

give_returns(self, modifier, amount) ==
    LET paamount == has_modifier(self, modifier) IN
    IF NothingToGive(amount) \/ give_raises(self, modifier, amount) # ""
    THEN None
    ELSE IF ~Truthy(paamount)
    THEN PlayerArtifactAmount(self,
             get_artifact_for_modifier(modifier, self), amount)
    ELSE PlayerArtifactAmount(self, modifier, paamount.amount + amount)

give_modifier(self, modifier, amount) ==
    LET paamount == has_modifier(self, modifier) IN
    /\ artifact_amounts' =
         IF NothingToGive(amount) \/ give_raises(self, modifier, amount) # ""
         THEN artifact_amounts
         ELSE IF ~Truthy(paamount)
         THEN Put(artifact_amounts,
                  <<self, get_artifact_for_modifier(modifier, self)>>, amount)
         ELSE Put(artifact_amounts, <<self, modifier>>,
                  paamount.amount + amount)
    /\ UNCHANGED <<spell_amounts, spell_dues>>

----------------------------------------------------------------------------
(* Player.add_spell *)

\* PlayerSpellAmount.amount = models.IntegerField(default=1)
DefaultAmount == 1

\* variant: the increment is lost
AddOneMutKeep(amount) == amount

\* `psamount.amount += 1`
AddOne(amount) == amount + 1

add_spell(self, spell) ==
    /\ spell_amounts' =
         IF <<self, spell>> \notin DOMAIN spell_amounts
         THEN Put(spell_amounts, <<self, spell>>, DefaultAmount)
         ELSE Put(spell_amounts, <<self, spell>>,
                  AddOne(spell_amounts[<<self, spell>>]))
    /\ UNCHANGED <<artifact_amounts, spell_dues>>

----------------------------------------------------------------------------
(* Player.cast_spell *)

\* variant: the lookup is made with player=self
CollectionKeyMutSelf(self, spell, source) == <<self, spell>>

\* `PlayerSpellAmount.objects.get(player=source, spell=spell)`
CollectionKey(self, spell, source) == <<source, spell>>

\* variant: the row is created with player=source
DueRowMutSource(self, spell, source, due) ==
    [key |-> <<source, spell>>, val |-> [source |-> source, due |-> due]]

\* `PlayerSpellDue.objects.create(player=self, source=source, spell=spell, due=due)`
DueRow(self, spell, source, due) ==
    [key |-> <<self, spell>>, val |-> [source |-> source, due |-> due]]

\* `if psamount.amount == 0` : the collection row is deleted instead of saved
SpellSpent(amount) == amount = 0

\* the first try block: DoesNotExist or AssertionError
cast_lacks(self, spell, source) ==
    LET k == CollectionKey(self, spell, source) IN
    \/ k \notin DOMAIN spell_amounts
    \/ ~(spell_amounts[k] > 0)

\* variant: the pair (player, spell) is not constrained
DueExistsMutNever(key) == FALSE

\* PlayerSpellDue: unique_together = ('player', 'spell'); create() raises
\* IntegrityError when a row for the pair exists
DueExists(key) == key \in DOMAIN spell_dues

\* objects.create succeeded: the source holds the spell and no row exists
\* for the unique pair (player, spell), else IntegrityError
cast_created(self, spell, source, due, fault) ==
    /\ ~cast_lacks(self, spell, source)
    /\ ~DueExists(DueRow(self, spell, source, due).key)

\* God.post_cast: an oracle that either returns or raises
post_cast_ok(fault) == fault # "post_cast"

\* what is raised inside the first try block
first_try_raises(self, spell, source) ==
    LET k == CollectionKey(self, spell, source) IN
    IF k \notin DOMAIN spell_amounts THEN "DoesNotExist"
    ELSE IF ~(spell_amounts[k] > 0) THEN "AssertionError"
    ELSE ""

\* `except (PlayerSpellAmount.DoesNotExist, AssertionError)`
FirstCatches(exc) == exc \in {"DoesNotExist", "AssertionError"}

\* what is raised inside the second try block
second_try_raises(self, spell, source, due, fault) ==
    IF DueExists(DueRow(self, spell, source, due).key) THEN "IntegrityError"
    ELSE IF ~post_cast_ok(fault) THEN "OracleError"
    ELSE IF fault = "save" THEN "DatabaseError"
    ELSE ""

\* variant: only the IntegrityError of create() is caught
SecondCatchesMutIntegrity(exc) == exc = "IntegrityError"

\* the bare `except:`
SecondCatches(exc) == TRUE

\* the exception that leaves cast_spell, "" when none does
cast_raises(self, spell, source, due, fault) ==
    LET e1 == first_try_raises(self, spell, source)
        e2 == second_try_raises(self, spell, source, due, fault)
    IN  IF e1 # "" THEN (IF FirstCatches(e1) THEN "" ELSE e1)
        ELSE IF e2 # "" /\ ~SecondCatches(e2) THEN e2
        ELSE ""

cast_returns(self, spell, source, due, fault) ==
    IF cast_raises(self, spell, source, due, fault) # "" THEN None
    ELSE IF /\ cast_created(self, spell, source, due, fault)
            /\ post_cast_ok(fault)
            /\ fault # "save"
    THEN True ELSE False

cast_god(self, spell, source, due, fault) ==
    IF cast_created(self, spell, source, due, fault)
    THEN {"post_cast"} ELSE {}

cast_spell(self, spell, source, due, fault) ==
    LET k == CollectionKey(self, spell, source)
        row == DueRow(self, spell, source, due)
    IN  /\ spell_dues' =
             IF cast_created(self, spell, source, due, fault)
             THEN Put(spell_dues, row.key, row.val)
             ELSE spell_dues
        /\ spell_amounts' =
             IF cast_returns(self, spell, source, due, fault) = True
             THEN IF SpellSpent(spell_amounts[k] - 1)
                  THEN Delete(spell_amounts, k)
                  ELSE Put(spell_amounts, k, spell_amounts[k] - 1)
             ELSE spell_amounts
        /\ UNCHANGED artifact_amounts

\* the spell amount in `p`'s collection, 0 when there is no row
Collected(p, s) ==
    IF <<p, s>> \in DOMAIN spell_amounts THEN spell_amounts[<<p, s>>] ELSE 0

----------------------------------------------------------------------------
(* The calls as steps of the system *)

\* the caps that keep the tables finite
Bounded ==
    /\ Total(artifact_amounts) <= MaxAmount
    /\ Total(spell_amounts) <= MaxSpells
    /\ Cardinality(DOMAIN spell_dues) <= MaxEffects

Has(p, m) ==
    /\ last' = Call("has_modifier", p, m, 0, "-", 0, "none", "",
                    has_modifier(p, m), {}, Holding(p, m))
    /\ UNCHANGED store

Use(p, m, a) ==
    /\ use_modifier(p, m, a)
    /\ last' = Call("use_modifier", p, m, a, "-", 0, "none",
                    use_raises(p, m, a), use_returns(p, m, a), {},
                    Holding(p, m))

Give(p, m, a) ==
    /\ give_modifier(p, m, a)
    /\ last' = Call("give_modifier", p, m, a, "-", 0, "none",
                    give_raises(p, m, a), give_returns(p, m, a),
                    give_god(p, m, a), Holding(p, m))

HasModifier ==
    \E p \in Players, m \in Names :
        Has(p, m) /\ UNCHANGED <<step, groupVars, moreVars>>

UseModifier ==
    \E p \in Players, m \in Names, a \in Amounts :
        Use(p, m, a) /\ Bounded' /\ UNCHANGED <<step, groupVars, moreVars>>

GiveModifier ==
    \E p \in Players, m \in Names, a \in Amounts :
        Give(p, m, a) /\ Bounded' /\ UNCHANGED <<step, groupVars, moreVars>>

AddSpell ==
    \E p \in Players, s \in Names :
        /\ add_spell(p, s)
        /\ Bounded'
        /\ last' = Call("add_spell", p, s, 0, "-", 0, "none", "", None, {},
                        Collected(p, s))
        /\ UNCHANGED <<step, groupVars, moreVars>>

\* a failure is drawn only when the second try block is entered and
\* objects.create went through
CastSpell ==
    \E p \in Players, s \in Names, src \in Players, d \in Dues :
      \E f \in (IF cast_created(p, s, src, d, "none") THEN Faults
                ELSE {"none"}) :
        /\ cast_spell(p, s, src, d, f)
        /\ Bounded'
        /\ last' = Call("cast_spell", p, s, 0, src, d, f,
                        cast_raises(p, s, src, d, f),
                        cast_returns(p, s, src, d, f),
                        cast_god(p, s, src, d, f), Collected(src, s))
        /\ UNCHANGED <<step, groupVars, moreVars>>

----------------------------------------------------------------------------
(* Specifications *)

DueRecords == [source : Players, due : Dues]

NoGroups ==
    /\ gclass = EmptyTable
    /\ parent = EmptyTable
    /\ inst = None

\* no account saved, no membership, no request in flight
NoMore ==
    /\ first = None
    /\ users = {}
    /\ players = EmptyTable
    /\ member = EmptyTable
    /\ thr = EmptyTable

\* modifier accounting: give / use / has, from any artifact table within the
\* bound and with players that may be under active spell effects (tables that
\* grants followed by casts produce)
Init ==
    /\ artifact_amounts \in Tables(Keys, 1..MaxAmount, MaxAmount)
    /\ Total(artifact_amounts) <= MaxAmount
    /\ spell_amounts = EmptyTable
    /\ spell_dues \in Tables(Keys, DueRecords, InitEffects)
    /\ last = NoCall
    /\ step = 0
    /\ NoGroups
    /\ NoMore

Next == GiveModifier \/ UseModifier \/ HasModifier

Spec == Init /\ [][Next]_vars

\* spell collection and casting
InitSpells ==
    /\ artifact_amounts = EmptyTable
    /\ spell_amounts = EmptyTable
    /\ spell_dues = EmptyTable
    /\ last = NoCall
    /\ step = 0
    /\ NoGroups
    /\ NoMore

NextSpells == AddSpell \/ CastSpell

SpecSpells == InitSpells /\ [][NextSpells]_vars

\* every mutator of the amount tables, in any order; `last` is not kept
QuietBounded ==
    Total(artifact_amounts) + Total(spell_amounts)
        + Cardinality(DOMAIN spell_dues) <= MaxTotal

QGiveModifier ==
    \E p \in Players, m \in Names, a \in Amounts :
        /\ give_modifier(p, m, a)
        /\ QuietBounded' /\ UNCHANGED <<last, step, groupVars, moreVars>>

QUseModifier ==
    \E p \in Players, m \in Names, a \in Amounts :
        /\ use_modifier(p, m, a)
        /\ QuietBounded' /\ UNCHANGED <<last, step, groupVars, moreVars>>

QAddSpell ==
    \E p \in Players, s \in Names :
        /\ add_spell(p, s)
        /\ QuietBounded' /\ UNCHANGED <<last, step, groupVars, moreVars>>

QCastSpell ==
    \E p \in Players, s \in Names, src \in Players, d \in Dues, f \in Faults :
        /\ cast_spell(p, s, src, d, f)
        /\ QuietBounded' /\ UNCHANGED <<last, step, groupVars, moreVars>>

NextAmounts == QGiveModifier \/ QUseModifier \/ QAddSpell \/ QCastSpell

SpecAmounts == InitSpells /\ [][NextAmounts]_vars

\* the worked example: grant 3 "shield", use 2, use 2, use 1, look it up;
\* it starts from any tables in which has_modifier("shield") finds nothing
\* for the player
ShieldPlayer == "p1"

InitShield ==
    /\ Init
    /\ has_modifier(ShieldPlayer, "shield") = False

Shield1 ==
    /\ step = 0 /\ step' = 1
    /\ Give(ShieldPlayer, "shield", 3) /\ UNCHANGED <<groupVars, moreVars>>

Shield2 ==
    /\ step = 1 /\ step' = 2
    /\ Use(ShieldPlayer, "shield", 2) /\ UNCHANGED <<groupVars, moreVars>>

Shield3 ==
    /\ step = 2 /\ step' = 3
    /\ Use(ShieldPlayer, "shield", 2) /\ UNCHANGED <<groupVars, moreVars>>

Shield4 ==
    /\ step = 3 /\ step' = 4
    /\ Use(ShieldPlayer, "shield", 1) /\ UNCHANGED <<groupVars, moreVars>>

Shield5 ==
    /\ step = 4 /\ step' = 5
    /\ Has(ShieldPlayer, "shield") /\ UNCHANGED <<groupVars, moreVars>>

NextShield == Shield1 \/ Shield2 \/ Shield3 \/ Shield4 \/ Shield5

SpecShield == InitShield /\ [][NextShield]_vars

----------------------------------------------------------------------------
(* PlayerGroup *)

Groups == {1, 2, 3}
\* parent = None
NoParent == 0
\* class-ranks: the field's default and one more
GClasses == {0, 2}

\* the parent chain of g, followed for as many links as there are groups,
\* never comes back to g
RECURSIVE Climbs(_, _, _, _)
Climbs(par, g, h, n) ==
    IF n = 0 \/ par[h] = NoParent THEN FALSE
    ELSE par[h] = g \/ Climbs(par, g, par[h], n - 1)

Acyclic(par) == \A g \in Groups : ~Climbs(par, g, g, Cardinality(Groups))

\* PlayerGroup.children, asked of the parent row pid: `playergroup_set.all()`
children(pid) == {h \in Groups : parent[h] = pid}

\* variant: only groups without a parent are kept
SameClassMutRootsOnly(i) ==
    {h \in Groups : gclass[h] = i.gclass /\ parent[h] = NoParent} \ {i.id}

\* `PlayerGroup.objects.filter(gclass=self.gclass).exclude(id=self.id)`
SameClass(i) == {h \in Groups : gclass[h] = i.gclass} \ {i.id}

\* `self.parent.children.exclude(id=self.id)`
Siblings(i) == children(i.parent) \ {i.id}

\* `if not self._sisters` : the query is evaluated
sisters_evaluates(i) == i._sisters = {}

\* the value the sisters property returns, and leaves in self._sisters
sisters(i) ==
    IF sisters_evaluates(i)
    THEN IF i.parent # NoParent THEN Siblings(i) ELSE SameClass(i)
    ELSE i._sisters

sisters_queries(i) ==
    IF ~sisters_evaluates(i) THEN {}
    ELSE IF i.parent # NoParent THEN {"children"} ELSE {"filter_gclass"}

List(items) == [kind |-> "list", items |-> items]

\* a PlayerGroup instance is fetched: its fields are the row's, and
\* _sisters is the class attribute []
GetGroup ==
    \E g \in Groups :
        /\ inst' = [id |-> g, gclass |-> gclass[g], parent |-> parent[g],
                    _sisters |-> {}]
        /\ last' = Call("get_group", g, "-", 0, "-", 0, "none", "", None, {}, 0)
        /\ first' = None
        /\ UNCHANGED <<store, step, gclass, parent, users, players, member, thr>>

\* the sisters property is read on the instance
Sisters ==
    /\ inst # None
    /\ inst' = [inst EXCEPT !._sisters = sisters(inst)]
    /\ last' = Call("sisters", inst.id, "-", 0, "-", 0, "none", "",
                    List(sisters(inst)), sisters_queries(inst), 0)
    /\ first' = IF first = None THEN List(sisters(inst)) ELSE first
    /\ UNCHANGED <<store, step, gclass, parent, users, players, member, thr>>

\* a group's row is saved with another parent (the hierarchy stays a forest)
SetParent ==
    \E g \in Groups, np \in Groups \cup {NoParent} :
        /\ np # parent[g]
        /\ Acyclic([parent EXCEPT ![g] = np])
        /\ parent' = [parent EXCEPT ![g] = np]
        /\ last' = Call("set_parent", g, "-", np, "-", 0, "none", "", None, {}, 0)
        /\ UNCHANGED <<store, step, gclass, inst, moreVars>>

\* a group's row is saved with another class-rank
SetGClass ==
    \E g \in Groups, c \in GClasses :
        /\ c # gclass[g]
        /\ gclass' = [gclass EXCEPT ![g] = c]
        /\ last' = Call("set_gclass", g, "-", c, "-", 0, "none", "", None, {}, 0)
        /\ UNCHANGED <<store, step, parent, inst, moreVars>>

InitGroups ==
    /\ artifact_amounts = EmptyTable
    /\ spell_amounts = EmptyTable
    /\ spell_dues = EmptyTable
    /\ last = NoCall
    /\ step = 0
    /\ gclass \in [Groups -> GClasses]
    /\ parent \in [Groups -> Groups \cup {NoParent}]
    /\ Acyclic(parent)
    /\ inst = None
    /\ NoMore

NextGroups == GetGroup \/ Sisters \/ SetParent \/ SetGClass

SpecGroups == InitGroups /\ [][NextGroups]_vars

----------------------------------------------------------------------------
(* user_post_save: the Player of an account *)

\* accounts are 1..MaxAccounts
MaxAccounts == 5
Accounts == 1..MaxAccounts

\* variant: the lookup of get_or_create never finds a row
PlayerExistsMutNever(u) == FALSE

\* get_or_create(user=instance): is there a Player row for the account
PlayerExists(u) == u \in DOMAIN players /\ players[u] > 0

\* `Player.objects.get_or_create(user=instance)`: the value of `new`
user_post_save_new(instance) == IF PlayerExists(instance) THEN False ELSE True

\* the hook connected to User's post_save signal
user_post_save(instance) ==
    players' = IF PlayerExists(instance) THEN players
               ELSE Put(players, instance,
                        (IF instance \in DOMAIN players
                         THEN players[instance] ELSE 0) + 1)

\* an account is saved for the first time; post_save fires
CreateUser ==
    \E u \in Accounts \ users :
        /\ users' = users \cup {u}
        /\ user_post_save(u)
        /\ last' = Call("create_user", u, "-", 0, "-", 0, "none", "",
                        user_post_save_new(u), {}, 0)
        /\ UNCHANGED <<store, step, groupVars, first, member, thr>>

\* an existing account is saved again; post_save fires again
ResaveUser ==
    \E u \in users :
        /\ users' = users
        /\ user_post_save(u)
        /\ last' = Call("resave_user", u, "-", 0, "-", 0, "none", "",
                        user_post_save_new(u), {}, 0)
        /\ UNCHANGED <<store, step, groupVars, first, member, thr>>

NextUsers == CreateUser \/ ResaveUser

SpecUsers == InitSpells /\ [][NextUsers]_vars

----------------------------------------------------------------------------
(* Player.proximate_group *)

\* variant: the largest class-rank
MinGClassMutMax(S) == CHOOSE c \in S : \A d \in S : c >= d

\* `aggregate(gclass=models.Min('gclass'))` over a non-empty set of ranks
MinGClass(S) == CHOOSE c \in S : \A d \in S : c <= d

PlayerGroupRow(g) == [kind |-> "PlayerGroup", id |-> g]

\* the groups `self.groups.filter(gclass=res['gclass'])` holds; [0] is one
\* of them (the rows come in no stated order)
proximate_candidates(p) ==
    {g \in member[p] :
        gclass[g] = MinGClass({gclass[h] : h \in member[p]})}

ProximateGroup ==
    \E p \in Players :
        /\ \/ /\ member[p] = {}
              /\ last' = Call("proximate_group", p, "-", 0, "-", 0, "none",
                              "", None, {}, 0)
           \/ /\ member[p] # {}
              /\ \E g \in proximate_candidates(p) :
                    last' = Call("proximate_group", p, "-", 0, "-", 0,
                                 "none", "", PlayerGroupRow(g), {}, 0)
        /\ UNCHANGED <<store, step, groupVars, moreVars>>

\* Player.groups.add(g)
JoinGroup ==
    \E p \in Players : \E g \in Groups \ member[p] :
        /\ member' = [member EXCEPT ![p] = @ \cup {g}]
        /\ last' = Call("join_group", p, "-", g, "-", 0, "none", "", None,
                        {}, 0)
        /\ UNCHANGED <<store, step, groupVars, first, users, players, thr>>

\* Player.groups.remove(g)
LeaveGroup ==
    \E p \in Players : \E g \in member[p] :
        /\ member' = [member EXCEPT ![p] = @ \ {g}]
        /\ last' = Call("leave_group", p, "-", g, "-", 0, "none", "", None,
                        {}, 0)
        /\ UNCHANGED <<store, step, groupVars, first, users, players, thr>>

InitMembers ==
    /\ artifact_amounts = EmptyTable
    /\ spell_amounts = EmptyTable
    /\ spell_dues = EmptyTable
    /\ last = NoCall
    /\ step = 0
    /\ gclass \in [Groups -> GClasses]
    /\ parent = [g \in Groups |-> NoParent]
    /\ inst = None
    /\ first = None
    /\ users = {}
    /\ players = EmptyTable
    /\ member = [p \in Players |-> {}]
    /\ thr = EmptyTable

NextMembers == JoinGroup \/ LeaveGroup \/ SetGClass \/ ProximateGroup

SpecMembers == InitMembers /\ [][NextMembers]_vars

----------------------------------------------------------------------------
(* Two use_modifier calls running side by side *)

Threads == {1, 2}

\* a call that has not yet run line 173
Request(self, modifier, amount) ==
    [pc |-> "start", self |-> self, modifier |-> modifier,
     amount |-> amount, paamount |-> None, raised |-> ""]

\* variant: the amount written is computed from the stored row
RemainingMutStored(read, stored, amount) == stored - amount

\* `paamount.amount -= amount` on the instance the call read earlier
Remaining(read, stored, amount) == read - amount

\* `paamount = self.has_modifier(modifier)`: the row is read into the call's
\* own instance
ReadStep ==
    \E t \in Threads :
        /\ thr[t].pc = "start"
        /\ thr' = [thr EXCEPT
                     ![t].pc = "read",
                     ![t].paamount = has_modifier(thr[t].self,
                                                  thr[t].modifier)]
        /\ UNCHANGED <<store, last, step, groupVars, first, users, players,
                       member>>

\* the rest of use_modifier, on the instance read: the comparison, then
\* delete() of the row (nothing to delete when it is gone) or save() of it
\* (written back even when another call deleted it)
WriteStep ==
    \E t \in Threads :
        LET r == thr[t]
            k == <<r.self, r.modifier>>
            exc == IF ~HasAmountAttr(r.paamount) THEN "AttributeError"
                   ELSE IF Insufficient(r.amount, r.paamount.amount)
                        THEN "InsufficientAmount"
                   ELSE ""
            left == Remaining(r.paamount.amount,
                              Holding(r.self, r.modifier), r.amount)
        IN  /\ r.pc = "read"
            /\ thr' = [thr EXCEPT ![t].pc = "done", ![t].raised = exc]
            /\ artifact_amounts' =
                 IF exc # "" THEN artifact_amounts
                 ELSE IF IsSpent(left) THEN Delete(artifact_amounts, k)
                 ELSE Put(artifact_amounts, k, left)
            /\ UNCHANGED <<spell_amounts, spell_dues, last, step, groupVars,
                           first, users, players, member>>

InitRace ==
    /\ artifact_amounts \in Tables(Keys, 1..MaxAmount, MaxAmount)
    /\ Total(artifact_amounts) <= MaxAmount
    /\ spell_amounts = EmptyTable
    /\ spell_dues = EmptyTable
    /\ last = NoCall
    /\ step = 0
    /\ NoGroups
    /\ first = None
    /\ users = {}
    /\ players = EmptyTable
    /\ member = EmptyTable
    /\ \E p \in Players, m \in Names :
          thr \in [Threads -> {Request(p, m, a) : a \in Amounts}]

NextRace == ReadStep \/ WriteStep

SpecRace == InitRace /\ [][NextRace]_vars

----------------------------------------------------------------------------
(* Properties *)

\* what a table holds under key k, 0 when there is no row
AmountIn(tbl, k) == IF k \in DOMAIN tbl THEN tbl[k] ELSE 0

\* every row of tbl other than k is the same row of tbl2
SameExcept(tbl, tbl2, k) ==
    /\ DOMAIN tbl \ {k} = DOMAIN tbl2 \ {k}
    /\ \A x \in DOMAIN tbl \ {k} : tbl2[x] = tbl[x]

\* C1: a use_modifier(m, a) call with a greater than the player's holding of
\* artifact m (0 when the player has no row for m) raises InsufficientAmount
\* and leaves the three tables as they were.
C1_UseBeyondHolding ==
    [][ (/\ last'.op = "use_modifier"
         /\ last'.amount > AmountIn(artifact_amounts, <<last'.self, last'.name>>))
        => (/\ last'.raised = "InsufficientAmount"
            /\ UNCHANGED store) ]_vars

\* C2: a give_modifier(m, a) call with a > 0 followed at once by
\* use_modifier(m, a) on the same player: the use raises nothing, the holding
\* of m is what it was before the give, and if there was no holding before,
\* there is no row for m afterwards.
C2_GiveThenUse ==
    [][ (/\ last.op = "give_modifier"
         /\ last.amount > 0
         /\ last'.op = "use_modifier"
         /\ last'.self = last.self
         /\ last'.name = last.name
         /\ last'.amount = last.amount)
        => (/\ last'.raised = ""
            /\ AmountIn(artifact_amounts', <<last.self, last.name>>) = last.before
            /\ (last.before = 0
                  => <<last.self, last.name>> \notin DOMAIN artifact_amounts')) ]_vars

C4_CastWithoutSpell ==
    [][ (/\ last'.op = "cast_spell"
         /\ <<last'.source, last'.name>> \notin DOMAIN spell_amounts)
        => (last'.ret = False /\ UNCHANGED store) ]_vars

\* a cast was tried from a source without the spell on a target that
\* does collect it
C4_Witness ==
    /\ last.op = "cast_spell"
    /\ last.ret = False
    /\ <<last.source, last.name>> \notin DOMAIN spell_amounts
    /\ <<last.self, last.name>> \in DOMAIN spell_amounts
    /\ <<last.self, last.name>> \notin DOMAIN spell_dues

\* C5: in every state reached by give_modifier, use_modifier, add_spell and
\* cast_spell calls with any amounts, every row of the artifact table and of
\* the spell-collection table has amount >= 1.
C5_AmountsPositive ==
    /\ \A k \in DOMAIN artifact_amounts : artifact_amounts[k] >= 1
    /\ \A k \in DOMAIN spell_amounts : spell_amounts[k] >= 1

\* casts have used up every collected spell (the collection rows were deleted
\* at zero) while artifact rows of different amounts are held
C5_Witness ==
    /\ spell_dues # EmptyTable
    /\ spell_amounts = EmptyTable
    /\ \E k1, k2 \in DOMAIN artifact_amounts :
           artifact_amounts[k1] = 1 /\ artifact_amounts[k2] > 1

\* C6: give_modifier(m, a) with a > 0 creates the artifact row with amount a
\* when the player has no artifact row for m, whether or not an active effect
\* named m is cast on the player, and otherwise adds a to the row.
C6_GiveCreatesOrAdds ==
    [][ (last'.op = "give_modifier" /\ last'.amount > 0)
        => LET k == <<last'.self, last'.name>>
           IN  /\ k \in DOMAIN artifact_amounts'
               /\ artifact_amounts'[k] =
                      AmountIn(artifact_amounts, k) + last'.amount ]_vars

\* C7: give_modifier(m, a) with a <= 0 raises nothing, changes no table and
\* consults no oracle.
C7_GiveNothing ==
    [][ (last'.op = "give_modifier" /\ last'.amount <= 0)
        => (/\ UNCHANGED store
            /\ last'.calls = {}
            /\ last'.raised = ""
            /\ last'.ret = None) ]_vars

\* give_modifier was called with amount 0 for a modifier the player lacks
C7_Witness ==
    /\ last.op = "give_modifier"
    /\ last.amount = 0
    /\ has_modifier(last.self, last.name) = False

\* C8: has_modifier(name) returns the player's artifact row for name when
\* there is one, else the player's active-effect row for name when there is
\* one, else False; the row it returns is the player's own; no table changes.
C8_HasModifier ==
    [][ (last'.op = "has_modifier")
        => LET p == last'.self
               m == last'.name
               k == <<last'.self, last'.name>>
               r == last'.ret
           IN  /\ UNCHANGED store
               /\ (k \in DOMAIN artifact_amounts
                     => r = [kind |-> "PlayerArtifactAmount", player |-> p,
                             artifact |-> m, amount |-> artifact_amounts[k]])
               /\ (k \notin DOMAIN artifact_amounts /\ k \in DOMAIN spell_dues
                     => r = [kind |-> "PlayerSpellDue", player |-> p,
                             spell |-> m, source |-> spell_dues[k].source,
                             due |-> spell_dues[k].due])
               /\ (k \notin DOMAIN artifact_amounts /\ k \notin DOMAIN spell_dues
                     => r = False)
               /\ (r # False => r.player = p) ]_vars

\* has_modifier was called for a name under which the player has both an
\* artifact row and an active effect, and the artifact row came back
C8_Witness ==
    /\ last.op = "has_modifier"
    /\ last.ret.kind = "PlayerArtifactAmount"
    /\ <<last.self, last.name>> \in DOMAIN spell_dues
    /\ <<last.self, last.name>> \in DOMAIN artifact_amounts

\* C9: from a player for whom has_modifier("shield") finds nothing, after
\* give_modifier("shield", 3): use_modifier("shield", 2) leaves amount 1; a
\* second use_modifier("shield", 2) raises InsufficientAmount and leaves
\* amount 1; use_modifier("shield", 1) deletes the row; has_modifier("shield")
\* then returns False.
C9_ShieldExample ==
    LET k == <<ShieldPlayer, "shield">> IN
    /\ step = 1 => (last.raised = "" /\ AmountIn(artifact_amounts, k) = 3)
    /\ step = 2 => (last.raised = "" /\ k \in DOMAIN artifact_amounts
                    /\ artifact_amounts[k] = 1)
    /\ step = 3 => (last.raised = "InsufficientAmount"
                    /\ k \in DOMAIN artifact_amounts
                    /\ artifact_amounts[k] = 1)
    /\ step = 4 => (last.raised = "" /\ k \notin DOMAIN artifact_amounts)
    /\ step = 5 => (last.op = "has_modifier" /\ last.ret = False
                    /\ k \notin DOMAIN artifact_amounts)

\* the example ran to its end while the other player held shields too
C9_Witness ==
    /\ step = 5
    /\ <<"p2", "shield">> \in DOMAIN artifact_amounts

\* C10 (as claimed): on a group without a parent, sisters returns exactly the
\* other groups without a parent whose class-rank equals the group's.
C10_RootSistersAreRoots ==
    [][ (last'.op = "sisters" /\ inst.parent = NoParent)
        => last'.ret.items =
             {h \in Groups \ {inst.id} :
                  parent[h] = NoParent /\ gclass[h] = inst.gclass} ]_vars

\* C10 (amended): on a group without a parent, sisters, when it evaluates
\* its query, returns exactly the other groups whose class-rank equals the
\* group's, with or without a parent; and sisters never contains the group
\* itself.
C10_RootSistersByClass ==
    [][ (last'.op = "sisters" /\ inst.parent = NoParent)
        => (/\ inst.id \notin last'.ret.items
            /\ (inst._sisters = {}
                  => last'.ret.items =
                       {h \in Groups \ {inst.id} :
                            gclass[h] = inst.gclass})) ]_vars

\* sisters was evaluated on a root group and returned a group that has a
\* parent
C10_Witness ==
    /\ last.op = "sisters"
    /\ inst.parent = NoParent
    /\ parent[inst.id] = NoParent
    /\ last.calls = {"filter_gclass"}
    /\ \E h \in last.ret.items : parent[h] # NoParent

\* C11: add_spell(spell) raises the player's collected amount of the spell
\* by exactly 1 (a row with amount 1 when there was none, the row's amount
\* plus 1 otherwise) and changes no other row of any table.
C11_AddSpell ==
    [][ (last'.op = "add_spell")
        => LET k == <<last'.self, last'.name>>
           IN  /\ k \in DOMAIN spell_amounts'
               /\ spell_amounts'[k] = AmountIn(spell_amounts, k) + 1
               /\ (k \notin DOMAIN spell_amounts => spell_amounts'[k] = 1)
               /\ SameExcept(spell_amounts, spell_amounts', k)
               /\ spell_dues' = spell_dues
               /\ artifact_amounts' = artifact_amounts ]_vars

\* add_spell raised an existing row from 1 to 2
C11_Witness ==
    /\ last.op = "add_spell"
    /\ last.before = 1
    /\ <<last.self, last.name>> \in DOMAIN spell_amounts
    /\ spell_amounts[<<last.self, last.name>>] = 2

\* C16: cast_spell lets no exception out; it returns False when the source
\* lacks the spell, when create() fails, when God.post_cast fails and when
\* saving the decremented amount fails, and it returns True only when the
\* effect row was created, post_cast returned and the amount was persisted.
C16_CastNeverRaises ==
    [][ (last'.op = "cast_spell")
        => LET src == <<last'.source, last'.name>>
               tgt == <<last'.self, last'.name>>
               failed == \/ src \notin DOMAIN spell_amounts
                         \/ tgt \in DOMAIN spell_dues
                         \/ last'.fault \in {"post_cast", "save"}
           IN  /\ last'.raised = ""
               /\ last'.ret \in {True, False}
               /\ (failed => last'.ret = False)
               /\ (last'.ret = True
                     => /\ tgt \in DOMAIN spell_dues' \ DOMAIN spell_dues
                        /\ "post_cast" \in last'.calls
                        /\ AmountIn(spell_amounts', src)
                             = spell_amounts[src] - 1) ]_vars

\* a cast returned False because persisting the amount failed
C16_Witness ==
    /\ last.op = "cast_spell"
    /\ last.fault = "save"
    /\ last.raised = ""
    /\ last.ret = False

\* C17: a cast on a target that already has an active effect of the spell
\* returns False and changes no table: no second row, the existing row's
\* source and expiry are kept, and the source's amount is not decremented.
\* (The active-effect table is keyed by the pair (player, spell).)
C17_OneEffectPerPair ==
    [][ (/\ last'.op = "cast_spell"
         /\ <<last'.self, last'.name>> \in DOMAIN spell_dues)
        => (/\ last'.ret = False
            /\ UNCHANGED store) ]_vars

\* a source that holds the spell cast it on a target already under that
\* spell from another source
C17_Witness ==
    /\ last.op = "cast_spell"
    /\ last.before >= 1
    /\ <<last.self, last.name>> \in DOMAIN spell_dues
    /\ spell_dues[<<last.self, last.name>>].source # last.source
    /\ last.ret = False

\* C18: whenever cast_spell returns False, the three tables are what they
\* were before the call.
C18_FailedCastChangesNothing ==
    [][ (last'.op = "cast_spell" /\ last'.ret = False)
        => UNCHANGED store ]_vars

\* C15: on one PlayerGroup instance the sisters query is evaluated at most
\* once: every read after the first evaluates nothing and returns what the
\* first read returned, an empty result included, whatever was saved to the
\* hierarchy in between.
C15_SistersEvaluatedOnce ==
    [][ (last'.op = "sisters" /\ first # None)
        => (/\ last'.ret = first
            /\ last'.calls = {}) ]_vars

\* C12: after any sequence of first saves and re-saves of accounts, every
\* saved account has exactly one Player row, and there is no Player row
\* without an account.
C12_OnePlayerPerAccount ==
    /\ \A u \in users : u \in DOMAIN players /\ players[u] = 1
    /\ DOMAIN players = users

\* an account was saved again after its Player existed, among other accounts
C12_Witness ==
    /\ last.op = "resave_user"
    /\ last.ret = False
    /\ Cardinality(users) >= 2

\* C13: proximate_group returns None exactly when the player is in no
\* group; otherwise it returns a group the player is a member of whose
\* class-rank is at most that of every group the player is a member of.
C13_ProximateGroup ==
    (last.op = "proximate_group")
        => LET p == last.self
           IN  /\ (last.ret = None) <=> (member[p] = {})
               /\ (member[p] # {}
                     => /\ last.ret.kind = "PlayerGroup"
                        /\ last.ret.id \in member[p]
                        /\ \A h \in member[p] :
                               gclass[last.ret.id] <= gclass[h])

\* proximate_group picked the lower-ranked of groups of different ranks
C13_Witness ==
    /\ last.op = "proximate_group"
    /\ last.ret.kind = "PlayerGroup"
    /\ \E h \in member[last.self] : gclass[h] > gclass[last.ret.id]

\* both calls have returned without an exception after reading the same row
BothSucceeded ==
    /\ \A t \in Threads : thr[t].pc = "done" /\ thr[t].raised = ""
    /\ thr[1].paamount = thr[2].paamount

\* C14: when two use_modifier calls on the same player and modifier, each a
\* read step and a later write step with no lock, both read the same prior
\* amount and both succeed, the amount left is the prior amount minus ONE of
\* the two withdrawals (the later write), hence not the prior amount minus
\* their sum when neither withdrawal is zero.
C14_LostUpdate ==
    BothSucceeded
        => LET prior == thr[1].paamount.amount
               held == Holding(thr[1].self, thr[1].modifier)
           IN  /\ held \in {prior - thr[t].amount : t \in Threads}
               /\ (\A t \in Threads : thr[t].amount # 0)
                     => held # prior - (thr[1].amount + thr[2].amount)

\* both calls succeeded on the same prior amount although the two
\* withdrawals together exceed it, and one of them is lost
C14_Witness ==
    /\ BothSucceeded
    /\ \A t \in Threads : thr[t].amount > 0
    /\ thr[1].amount + thr[2].amount > thr[1].paamount.amount
    /\ Holding(thr[1].self, thr[1].modifier)
         # thr[1].paamount.amount - (thr[1].amount + thr[2].amount)

====
